---- MODULE Spec2Model ----
(***************************************************************************)
(* Model of the mortgage-application backend (Express + PostgreSQL +       *)
(* Redis): the authentication middleware, the auth, application and        *)
(* document controllers, the database schema's constraints and the         *)
(* document-intelligence call to the AI service.                           *)
(*                                                                         *)
(* Identifiers are UUIDs in the program; here a user, application or       *)
(* document id is a positive integer handed out by a counter and never     *)
(* reused, and 0 stands for a request parameter that is not a UUID.        *)
(***************************************************************************)
EXTENDS Integers, Sequences, FiniteSets, TLC

\* ---------------------------------------------------------------- bounds
MaxUsers == 3
MaxApps == 2
MaxDocs == 1
\* applicationNumber draws Math.random()*1000; the model draws from 0..MaxRand-1
MaxRand == 2
\* the clock counts seconds from 0 to MaxTime
MaxTime == 2
\* AIChat's messages are bounded in number
MaxMessages == 4
\* register requests the server handles at once
MaxProcs == 2

\* ------------------------------------------------------ program constants
\* multer limits.fileSize, and the same number in the frontend's onDrop
MaxFileSize == 10 * 1024 * 1024
\* the timeout of the frontend's axios instance (10000 ms), in seconds
FrontendTimeout == 10
\* the timeout of extractTextFromDocument's call of the AI service (30000 ms)
AiTimeout == 30
\* the README's processing time of a text extraction: 10-30 seconds
ProcessingTimeMax == 30

UserIds == 1..MaxUsers
AppIds == 1..MaxApps
DocIds == 1..MaxDocs

\* the email of a seeded user and the one the guide's test registers
Emails == {"customer@example.com", "test@example.com"}
Missing == ""

\* fileFilter's allowedTypes (one that document intelligence supports and one
\* that it does not are kept) and one type outside it
allowedTypes == {"application/pdf", "application/msword"}
MimeTypes == allowedTypes \cup {"text/plain"}
\* supportedTypes of extractTextFromDocument and of isDocumentSupported
supportedTypes == {"application/pdf", "image/jpeg", "image/jpg", "image/png"}

FileSizes == {MaxFileSize, MaxFileSize + 1}
NoFile == [present |-> FALSE, size |-> 0, mimetype |-> Missing]
Files == {NoFile} \cup [present : {TRUE}, size : FileSizes, mimetype : MimeTypes]
GoodFile(f) == f.present /\ f.size = MaxFileSize /\ f.mimetype \in allowedTypes
\* the upload requests tried: an acceptable file with a document type for any
\* application, and for application 1 every request with one thing wrong
UploadRequests ==
  {r \in [applicationId : AppIds, file : Files, documentType : {Missing, "identity"}] :
     \/ GoodFile(r.file) /\ r.documentType # Missing
     \/ /\ r.applicationId = 1
        /\ \/ r.documentType = Missing /\ GoodFile(r.file) /\ r.file.mimetype = "application/pdf"
           \/ /\ r.documentType # Missing
              /\ r.file \in {NoFile,
                              [present |-> TRUE, size |-> MaxFileSize + 1, mimetype |-> "application/pdf"],
                              [present |-> TRUE, size |-> MaxFileSize, mimetype |-> "text/plain"]}}

Statuses == {"approved"}

\* the methods class DocumentModel defines
DocumentModelMethods ==
  {"create", "findById", "findByApplicationId", "update", "delete",
   "findByDocumentType", "getDocumentStats"}

\* ---------------------------------------------------------------- tokens
\* A JWT is its payload's userId, the second it was issued in (iat, which
\* jwt.sign adds) and whether it verifies under the secret: two tokens
\* signed for the same user in the same second are the same string.
\* The response to a document-intelligence request is recorded without the
\* token of the request.
NoToken == [present |-> FALSE, signed |-> FALSE, userId |-> 0, iat |-> 0]
ForgedToken == [present |-> TRUE, signed |-> FALSE, userId |-> 1, iat |-> 0]
Jwt(u, iat) == [present |-> TRUE, signed |-> TRUE, userId |-> u, iat |-> iat]
SignedToken(u) == Jwt(u, 0)
Tokens == {NoToken, ForgedToken} \cup {SignedToken(u) : u \in UserIds}
\* the tokens of any second
TimedTokens == {NoToken, ForgedToken} \cup {Jwt(u, t) : u \in UserIds, t \in 0..MaxTime}

\* bcrypt.hash / bcrypt.compare
Hash(p) == <<"bcrypt", p>>

VARIABLES
  users,        \* table users: rows [id, email, password_hash, role]
  applications, \* table applications: rows [id, user_id, application_number, status]
  documents,    \* table documents: rows [id, application_id, file_size, mime_type, document_type, ai_analysis]
  files,        \* ids of the documents whose file is present in the uploads directory
  redis,        \* refresh_token:<userId> -> stored token (NoToken: no key)
  nextUserId, nextAppId, nextDocId,  \* uuid generation
  ai,           \* the document-intelligence request waiting for the AI service
  resp,         \* the response to the last request
  now,          \* the clock, in seconds
  localStorage, \* the browser's authToken and refreshToken
  form,         \* the application form: ApplicationPage and the step shown
  chat,         \* the chat session: AIChat's messages and the last LLM request
  extract,      \* the text extraction the frontend has asked for
  reg           \* the register requests in progress

vars == <<users, applications, documents, files, redis,
          nextUserId, nextAppId, nextDocId, ai, resp,
          now, localStorage, form, chat, extract, reg>>
\* what the backend's handlers, taken one request at a time, leave alone
ext == <<now, localStorage, form, chat, extract, reg>>

\* generateTokens: token and refreshToken sign the same payload
generateTokens(userId) ==
  [token |-> Jwt(userId, now), refreshToken |-> Jwt(userId, now)]
db == <<users, applications, documents, files, redis,
        nextUserId, nextAppId, nextDocId>>

NoData == [none |-> TRUE]
NoAi == [op |-> "none", doc |-> 0, mime |-> Missing, calls |-> 0]

\* The outcome of the last operation. For a request: the HTTP status (0 while
\* no response has been sent), error.code, whether a message field is
\* carried, whether a catch block produced the response, whether the
\* controller was entered in the step that produced it, and the request it
\* answers (its token, the application and document concerned, the body of
\* a register request).
NoBody == [email |-> Missing, password |-> Missing, firstName |-> Missing,
           lastName |-> Missing, role |-> Missing]
Resp(op, tok, entered, status, code, caught, app, doc, data, rows) ==
  [op |-> op, token |-> tok, entered |-> entered, status |-> status,
   code |-> code, message |-> TRUE, caught |-> caught,
   app |-> app, doc |-> doc, data |-> data, rows |-> rows, body |-> NoBody]
Err(op, tok, entered, status, code, caught) ==
  Resp(op, tok, entered, status, code, caught, 0, 0, NoData, {})
NoResp == [Err("none", NoToken, FALSE, 0, "", FALSE) EXCEPT !.message = FALSE]

\* ----------------------------------------------------------- the schema
\* sample rows the schema inserts: an admin, a customer and his draft
SeedUsers ==
  {[id |-> 1, email |-> "admin@mortgageapp.com", password_hash |-> Hash("password"), role |-> "admin"],
   [id |-> 2, email |-> "customer@example.com", password_hash |-> Hash("password"), role |-> "customer"]}
SeedApplications ==
  {[id |-> 1, user_id |-> 2, application_number |-> 1, status |-> "draft"]}

NoLocalStorage == [authToken |-> NoToken, refreshToken |-> NoToken]
\* a field left blank ('') or a section not filled in yet
Unset == [unset |-> TRUE]
NoForm == [mounted |-> FALSE, activeStep |-> 0, values |-> Unset, errors |-> FALSE,
           applicationData |-> [personalInfo |-> Unset, propertyDetails |-> Unset,
                                loanInfo |-> Unset, financialInfo |-> Unset]]
NoChat == [mounted |-> FALSE, messages |-> <<>>, isLoading |-> FALSE, error |-> FALSE,
           history |-> <<>>, llm |-> <<>>]
NoExtract == [state |-> "idle", doc |-> 0, elapsed |-> 0, answered |-> FALSE,
              answeredAt |-> 0, outcome |-> "none", status |-> 0]
Procs == 1..MaxProcs
\* a register request: where its handler stands, what findByEmail told it,
\* the user it created, the requests it ran along with, and its response
NoRequest == [pc |-> "idle", body |-> NoBody, fresh |-> FALSE, userId |-> 0,
              overlap |-> {}, status |-> 0, code |-> ""]
NoReg == [p \in Procs |-> NoRequest]

Init ==
  /\ users = SeedUsers
  /\ applications = SeedApplications
  /\ documents = {}
  /\ files = {}
  /\ redis = [u \in UserIds |-> NoToken]
  /\ nextUserId = 3
  /\ nextAppId = 2
  /\ nextDocId = 1
  /\ ai = NoAi
  /\ resp = NoResp
  /\ now = 0
  /\ localStorage = NoLocalStorage
  /\ form = NoForm
  /\ chat = NoChat
  /\ extract = NoExtract
  /\ reg = NoReg

\* ------------------------------------------------- database operations
\* a request parameter that PostgreSQL accepts as a UUID
ValidUuid(id) == id # 0

\* UserModel.findById / findByEmail: the matching rows (at most one)
findUserById(id) == {u \in users : u.id = id}
findByEmail(email) == {u \in users : u.email = email}
\* ApplicationModel.findById / findByUserId
findApplicationById(id) == {a \in applications : a.id = id}
findByUserId(userId) == {a \in applications : a.user_id = userId}
\* DocumentModel.findById / findByApplicationId
findDocumentById(id) == {d \in documents : d.id = id}
findByApplicationId(applicationId) == {d \in documents : d.application_id = applicationId}

\* applications.application_number is UNIQUE
ApplicationNumberFree(n) == \A a \in applications : a.application_number # n
\* documents.application_id REFERENCES applications(id): the insert is
\* accepted only for an existing application
DocumentFkHolds_unchecked(applicationId) == ValidUuid(applicationId)
DocumentFkHolds(applicationId) ==
  ValidUuid(applicationId) /\ findApplicationById(applicationId) # {}
\* the same references, seen from the referenced row: a DELETE of a row that
\* is still referenced is refused (no ON DELETE clause: NO ACTION)
ApplicationUnreferenced(id) == \A d \in documents : d.application_id # id
UserUnreferenced(id) == \A a \in applications : a.user_id # id

\* -------------------------------------------------------- authenticateToken
\* the middleware's outcome: next() with req.user, or the response it sends
authenticateToken_noUserLookup(tok) ==
  IF ~tok.present
    THEN [ok |-> FALSE, status |-> 401, code |-> "NO_TOKEN", caught |-> FALSE, user |-> 0]
  ELSE IF ~tok.signed
    THEN [ok |-> FALSE, status |-> 403, code |-> "INVALID_TOKEN", caught |-> TRUE, user |-> 0]
  ELSE [ok |-> TRUE, status |-> 0, code |-> "", caught |-> FALSE, user |-> tok.userId]
authenticateToken(tok) ==
  IF ~tok.present
    THEN [ok |-> FALSE, status |-> 401, code |-> "NO_TOKEN", caught |-> FALSE, user |-> 0]
  ELSE IF ~tok.signed  \* jwt.verify throws JsonWebTokenError
    THEN [ok |-> FALSE, status |-> 403, code |-> "INVALID_TOKEN", caught |-> TRUE, user |-> 0]
  ELSE IF findUserById(tok.userId) = {}
    THEN [ok |-> FALSE, status |-> 401, code |-> "INVALID_TOKEN", caught |-> FALSE, user |-> 0]
  ELSE [ok |-> TRUE, status |-> 0, code |-> "", caught |-> FALSE, user |-> tok.userId]

\* the response authenticateToken sends itself
Rejected(tok, a) == Err("authenticateToken", tok, FALSE, a.status, a.code, a.caught)

\* router.use(authenticateToken): the controller runs, with req.user.id, only
\* after next(); otherwise the middleware's response ends the request
Authenticated(tok, Controller(_)) ==
  LET a == authenticateToken(tok) IN
  IF ~a.ok
    THEN /\ resp' = Rejected(tok, a)
         /\ UNCHANGED <<users, applications, documents, files, redis,
                        nextUserId, nextAppId, nextDocId, ai>>
    ELSE Controller(a.user)

\* ------------------------------------------------------------ /api/auth
\* the data of register's 201 response
registerResponseData(user, t) ==
  [user |-> [id |-> user.id, email |-> user.email, role |-> user.role],
   token |-> t.token, refreshToken |-> t.refreshToken]

\* AuthController.register
register(body) ==
  IF body.email = Missing \/ body.password = Missing
     \/ body.firstName = Missing \/ body.lastName = Missing
    THEN /\ resp' = [Err("register", NoToken, TRUE, 400, "VALIDATION_ERROR", FALSE)
                     EXCEPT !.body = body]
         /\ UNCHANGED <<db, ai>>
  ELSE IF findByEmail(body.email) # {}
    THEN /\ resp' = [Err("register", NoToken, TRUE, 409, "USER_EXISTS", FALSE)
                     EXCEPT !.body = body]
         /\ UNCHANGED <<db, ai>>
  ELSE /\ nextUserId <= MaxUsers
       /\ LET user == [id |-> nextUserId, email |-> body.email,
                       password_hash |-> Hash(body.password),
                       role |-> IF body.role = Missing THEN "customer" ELSE body.role]
              t == generateTokens(user.id)
          IN /\ users' = users \cup {user}
             /\ nextUserId' = nextUserId + 1
             /\ redis' = [redis EXCEPT ![user.id] = t.refreshToken]
             /\ resp' = [Resp("register", NoToken, TRUE, 201, "", FALSE, 0, 0,
                              registerResponseData(user, t), {})
                         EXCEPT !.body = body]
       /\ UNCHANGED <<applications, documents, files, nextAppId, nextDocId, ai>>

Register ==
  /\ UNCHANGED ext
  /\ \E email \in Emails \cup {Missing}, name \in {Missing, "John"} :
       register([email |-> email, password |-> "password123", firstName |-> name,
                 lastName |-> "Doe", role |-> Missing])

\* the catch block of AuthController.refreshToken
refreshTokenCatch_400(rt) == Err("refreshToken", rt, TRUE, 400, "INVALID_REFRESH_TOKEN", TRUE)
refreshTokenCatch(rt) == Err("refreshToken", rt, TRUE, 401, "INVALID_REFRESH_TOKEN", TRUE)

\* the presented token is the one stored under refresh_token:<userId>
storedTokenMatches_anyStored(rt) == redis[rt.userId] # NoToken
storedTokenMatches(rt) == redis[rt.userId] # NoToken /\ redis[rt.userId] = rt

\* AuthController.refreshToken
refreshToken(rt) ==
  IF ~rt.present
    THEN /\ resp' = Err("refreshToken", rt, TRUE, 400, "VALIDATION_ERROR", FALSE)
         /\ UNCHANGED <<db, ai>>
  ELSE IF ~rt.signed  \* jwt.verify throws
    THEN /\ resp' = refreshTokenCatch(rt)
         /\ UNCHANGED <<db, ai>>
  ELSE IF ~storedTokenMatches(rt)
    THEN /\ resp' = Err("refreshToken", rt, TRUE, 401, "INVALID_REFRESH_TOKEN", FALSE)
         /\ UNCHANGED <<db, ai>>
  ELSE IF findUserById(rt.userId) = {}
    THEN /\ resp' = Err("refreshToken", rt, TRUE, 401, "USER_NOT_FOUND", FALSE)
         /\ UNCHANGED <<db, ai>>
  ELSE LET t == generateTokens(rt.userId)
       IN /\ redis' = [redis EXCEPT ![rt.userId] = t.refreshToken]
          /\ resp' = Resp("refreshToken", rt, TRUE, 200, "", FALSE, 0, 0,
                          [token |-> t.token, refreshToken |-> t.refreshToken], {})
          /\ UNCHANGED <<users, applications, documents, files,
                         nextUserId, nextAppId, nextDocId, ai>>

RefreshToken ==
  /\ UNCHANGED ext
  /\ \E rt \in Tokens : refreshToken(rt)

\* UserModel.validatePassword: bcrypt.compare
validatePassword_negated(password, hashedPassword) == Hash(password) # hashedPassword
validatePassword(password, hashedPassword) == Hash(password) = hashedPassword

LoginBody(email, password) ==
  [email |-> email, password |-> password, firstName |-> Missing,
   lastName |-> Missing, role |-> Missing]

\* AuthController.login
login(body) ==
  IF body.email = Missing \/ body.password = Missing
    THEN /\ resp' = [Err("login", NoToken, TRUE, 400, "VALIDATION_ERROR", FALSE)
                     EXCEPT !.body = body]
         /\ UNCHANGED <<db, ai>>
  ELSE IF findByEmail(body.email) = {}
    THEN /\ resp' = [Err("login", NoToken, TRUE, 401, "INVALID_CREDENTIALS", FALSE)
                     EXCEPT !.body = body]
         /\ UNCHANGED <<db, ai>>
  ELSE LET user == CHOOSE u \in findByEmail(body.email) : TRUE IN
    IF ~validatePassword(body.password, user.password_hash)
      THEN /\ resp' = [Err("login", NoToken, TRUE, 401, "INVALID_CREDENTIALS", FALSE)
                       EXCEPT !.body = body]
           /\ UNCHANGED <<db, ai>>
    ELSE LET t == generateTokens(user.id)
         IN /\ redis' = [redis EXCEPT ![user.id] = t.refreshToken]
            /\ resp' = [Resp("login", NoToken, TRUE, 200, "", FALSE, 0, 0,
                             [user |-> [id |-> user.id, email |-> user.email, role |-> user.role],
                              token |-> t.token, refreshToken |-> t.refreshToken], {})
                        EXCEPT !.body = body]
            /\ UNCHANGED <<users, applications, documents, files,
                           nextUserId, nextAppId, nextDocId, ai>>

\* the credentials tried: the seeded customer's and the registered user's
LoginBodies ==
  {LoginBody(email, password) :
     email \in Emails \cup {Missing}, password \in {"password", "password123"}}

Login ==
  /\ UNCHANGED ext
  /\ \E body \in LoginBodies : login(body)

\* AuthController.logout; userId is req.user?.id (0: undefined)
logout(tok, userId) ==
  /\ redis' = IF userId # 0 THEN [redis EXCEPT ![userId] = NoToken] ELSE redis
  /\ resp' = Resp("logout", tok, TRUE, 200, "", FALSE, 0, 0, NoData, {})
  /\ UNCHANGED <<users, applications, documents, files,
                 nextUserId, nextAppId, nextDocId, ai>>

\* POST /api/auth/logout: behind authenticateToken, or not (req.user is then
\* undefined)
logoutRoute(tok, guarded) ==
  IF guarded
    THEN Authenticated(tok, LAMBDA userId : logout(tok, userId))
    ELSE logout(tok, 0)

Logout ==
  /\ UNCHANGED ext
  /\ \E tok \in TimedTokens \ {ForgedToken}, guarded \in BOOLEAN : logoutRoute(tok, guarded)

\* a refresh request with a token of any second
RefreshTokenAt ==
  /\ UNCHANGED ext
  /\ \E rt \in TimedTokens : refreshToken(rt)

\* a second passes
Tick ==
  /\ now < MaxTime
  /\ now' = now + 1
  /\ resp' = NoResp
  /\ UNCHANGED <<db, ai, localStorage, form, chat, extract, reg>>

\* ------------------------------------------------ the browser: AuthContext
\* ApiService's request interceptor: the Authorization header of a request
interceptor(storage) == storage.authToken

\* ApiService's response interceptor and AuthContext.login
AuthContextLogin ==
  /\ \E body \in LoginBodies : body.email # Missing /\ login(body)
  /\ localStorage' =
       IF resp'.status = 200
         THEN [authToken |-> resp'.data.token, refreshToken |-> resp'.data.refreshToken]
       ELSE IF resp'.status = 401 THEN NoLocalStorage
       ELSE localStorage
  /\ UNCHANGED <<now, form, chat, extract, reg>>

\* AuthContext.logout: the storage is cleared, then the logout API is called
AuthContextLogout ==
  /\ localStorage' = NoLocalStorage
  /\ \E guarded \in BOOLEAN : logoutRoute(interceptor(localStorage'), guarded)
  /\ UNCHANGED <<now, form, chat, extract, reg>>

\* ---------------------------------------------------- /api/applications
\* ApplicationController.createApplication; n is the number Math.random draws
createApplication(tok, userId, n) ==
  IF ~ApplicationNumberFree(n)  \* unique violation: db.query throws
    THEN /\ resp' = Err("createApplication", tok, TRUE, 500, "INTERNAL_ERROR", TRUE)
         /\ UNCHANGED <<db, ai>>
  ELSE /\ nextAppId <= MaxApps
       /\ LET application == [id |-> nextAppId, user_id |-> userId,
                              application_number |-> n, status |-> "submitted"]
          IN /\ applications' = applications \cup {application}
             /\ nextAppId' = nextAppId + 1
             /\ resp' = Resp("createApplication", tok, TRUE, 201, "", FALSE,
                             application.id, 0, application, {})
       /\ UNCHANGED <<users, documents, files, redis, nextUserId, nextDocId, ai>>

CreateApplication ==
  /\ UNCHANGED ext
  /\ \E tok \in Tokens :
       Authenticated(tok,
         LAMBDA userId : \E n \in 0..(MaxRand - 1) : createApplication(tok, userId, n))

\* ApplicationController.getUserApplications
getUserApplications(tok, userId) ==
  /\ resp' = Resp("getUserApplications", tok, TRUE, 200, "", FALSE, 0, 0,
                  NoData, findByUserId(userId))
  /\ UNCHANGED <<db, ai>>

GetUserApplications ==
  /\ UNCHANGED ext
  /\ \E tok \in Tokens :
       Authenticated(tok, LAMBDA userId : getUserApplications(tok, userId))

\* ApplicationController.getApplicationById: the response it sends
getApplicationByIdResponse_ownerRefused(tok, userId, id) ==
  IF ~ValidUuid(id)
    THEN Err("getApplicationById", tok, TRUE, 500, "INTERNAL_ERROR", TRUE)
  ELSE IF findApplicationById(id) = {}
    THEN [Err("getApplicationById", tok, TRUE, 404, "NOT_FOUND", FALSE) EXCEPT !.app = id]
  ELSE LET application == CHOOSE x \in findApplicationById(id) : TRUE IN
    IF application.user_id = userId
      THEN [Err("getApplicationById", tok, TRUE, 403, "FORBIDDEN", FALSE) EXCEPT !.app = id]
    ELSE Resp("getApplicationById", tok, TRUE, 200, "", FALSE, id, 0, application, {})
getApplicationByIdResponse(tok, userId, id) ==
  IF ~ValidUuid(id)  \* invalid input syntax for type uuid: db.query throws
    THEN Err("getApplicationById", tok, TRUE, 500, "INTERNAL_ERROR", TRUE)
  ELSE IF findApplicationById(id) = {}
    THEN [Err("getApplicationById", tok, TRUE, 404, "NOT_FOUND", FALSE) EXCEPT !.app = id]
  ELSE LET application == CHOOSE x \in findApplicationById(id) : TRUE IN
    IF application.user_id # userId
      THEN [Err("getApplicationById", tok, TRUE, 403, "FORBIDDEN", FALSE) EXCEPT !.app = id]
    ELSE Resp("getApplicationById", tok, TRUE, 200, "", FALSE, id, 0, application, {})

getApplicationById(tok, userId, id) ==
  /\ resp' = getApplicationByIdResponse(tok, userId, id)
  /\ UNCHANGED <<db, ai>>

GetApplicationById ==
  /\ UNCHANGED ext
  /\ \E tok \in Tokens :
       Authenticated(tok,
         LAMBDA userId : \E id \in 0..MaxApps : getApplicationById(tok, userId, id))

\* ApplicationController.updateApplicationStatus
updateApplicationStatus_unowned(tok, userId, id, status) ==
  IF ~ValidUuid(id)
    THEN /\ resp' = Err("updateApplicationStatus", tok, TRUE, 500, "INTERNAL_ERROR", TRUE)
         /\ UNCHANGED <<db, ai>>
  ELSE IF findApplicationById(id) = {}
    THEN /\ resp' = [Err("updateApplicationStatus", tok, TRUE, 404, "NOT_FOUND", FALSE)
                       EXCEPT !.app = id]
         /\ UNCHANGED <<db, ai>>
  ELSE LET application == CHOOSE x \in findApplicationById(id) : TRUE
           updated == [application EXCEPT !.status = status]
       IN /\ applications' = (applications \ {application}) \cup {updated}
          /\ resp' = Resp("updateApplicationStatus", tok, TRUE, 200, "", FALSE,
                          id, 0, updated, {})
          /\ UNCHANGED <<users, documents, files, redis,
                         nextUserId, nextAppId, nextDocId, ai>>
updateApplicationStatus(tok, userId, id, status) ==
  IF ~ValidUuid(id)
    THEN /\ resp' = Err("updateApplicationStatus", tok, TRUE, 500, "INTERNAL_ERROR", TRUE)
         /\ UNCHANGED <<db, ai>>
  ELSE IF \A x \in findApplicationById(id) : x.user_id # userId
    THEN /\ resp' = [Err("updateApplicationStatus", tok, TRUE, 404, "NOT_FOUND", FALSE)
                       EXCEPT !.app = id]
         /\ UNCHANGED <<db, ai>>
  ELSE LET application == CHOOSE x \in findApplicationById(id) : TRUE
           updated == [application EXCEPT !.status = status]
       IN /\ applications' = (applications \ {application}) \cup {updated}
          /\ resp' = Resp("updateApplicationStatus", tok, TRUE, 200, "", FALSE,
                          id, 0, updated, {})
          /\ UNCHANGED <<users, documents, files, redis,
                         nextUserId, nextAppId, nextDocId, ai>>

UpdateApplicationStatus ==
  /\ UNCHANGED ext
  /\ \E tok \in Tokens :
       Authenticated(tok,
         LAMBDA userId : \E id \in AppIds, status \in Statuses :
           updateApplicationStatus(tok, userId, id, status))

\* ------------------------------------------------------- /api/documents
\* multer: fileFilter and limits.fileSize
fileFilter(file) == file.mimetype \in allowedTypes
withinFileSizeLimit_unlimited(file) == TRUE
withinFileSizeLimit(file) == file.size <= MaxFileSize

\* DocumentModel.create: the row INSERT ... RETURNING * gives back
documentRow(applicationId, file, documentType) ==
  [id |-> nextDocId, application_id |-> applicationId, file_size |-> file.size,
   mime_type |-> file.mimetype, document_type |-> documentType, ai_analysis |-> "null"]

\* upload.single('file'), then DocumentController.uploadDocument. A multer
\* error goes to the global error handler. A file multer stored for a request
\* the controller then refuses stays in the uploads directory under a name no
\* row refers to; no handler ever looks at it and the model does not keep it.
uploadDocument(tok, applicationId, file, documentType) ==
  IF file.present /\ ~fileFilter(file)
    THEN /\ resp' = Err("uploadDocument", tok, FALSE, 500, "INTERNAL_ERROR", FALSE)
         /\ UNCHANGED <<db, ai>>
  ELSE IF file.present /\ ~withinFileSizeLimit(file)
    THEN /\ resp' = Err("uploadDocument", tok, FALSE, 500, "LIMIT_FILE_SIZE", FALSE)
         /\ UNCHANGED <<db, ai>>
  ELSE IF ~file.present
    THEN /\ resp' = Err("uploadDocument", tok, TRUE, 400, "NO_FILE", FALSE)
         /\ UNCHANGED <<db, ai>>
  ELSE IF documentType = Missing
    THEN /\ resp' = Err("uploadDocument", tok, TRUE, 400, "MISSING_DOCUMENT_TYPE", FALSE)
         /\ UNCHANGED <<db, ai>>
  ELSE IF ~DocumentFkHolds(applicationId)  \* db.query throws
    THEN /\ resp' = Err("uploadDocument", tok, TRUE, 500, "UPLOAD_ERROR", TRUE)
         /\ UNCHANGED <<db, ai>>
  ELSE /\ nextDocId <= MaxDocs
       /\ LET document == documentRow(applicationId, file, documentType)
          IN /\ documents' = documents \cup {document}
             /\ files' = files \cup {document.id}
             /\ nextDocId' = nextDocId + 1
             /\ resp' = Resp("uploadDocument", tok, TRUE, 200, "", FALSE,
                             applicationId, document.id, document, {})
       /\ UNCHANGED <<users, applications, redis, nextUserId, nextAppId, ai>>

UploadDocument ==
  /\ UNCHANGED ext
  /\ \E tok \in Tokens :
       Authenticated(tok,
         LAMBDA userId : \E r \in UploadRequests :
           uploadDocument(tok, r.applicationId, r.file, r.documentType))

\* DocumentUpload.onDrop: the frontend's checks, then apiService.uploadDocument
\* with the stored authToken
onDrop(tok, applicationId, file, selectedDocumentType) ==
  IF selectedDocumentType = Missing
    THEN /\ resp' = Err("onDrop", tok, FALSE, 0, "SELECT_DOCUMENT_TYPE", FALSE)
         /\ UNCHANGED <<db, ai>>
  ELSE IF file.size > 10 * 1024 * 1024
    THEN /\ resp' = Err("onDrop", tok, FALSE, 0, "FILE_TOO_LARGE", FALSE)
         /\ UNCHANGED <<db, ai>>
  ELSE IF file.mimetype \notin allowedTypes
    THEN /\ resp' = Err("onDrop", tok, FALSE, 0, "INVALID_FILE_TYPE", FALSE)
         /\ UNCHANGED <<db, ai>>
  ELSE Authenticated(tok,
         LAMBDA userId : uploadDocument(tok, applicationId, file, selectedDocumentType))

OnDrop ==
  /\ UNCHANGED ext
  /\ \E tok \in Tokens \ {NoToken, ForgedToken}, r \in UploadRequests :
       /\ r.file.present
       /\ onDrop(tok, r.applicationId, r.file, r.documentType)

\* DocumentController.getDocuments
getDocuments(tok, applicationId) ==
  /\ resp' = IF ~ValidUuid(applicationId)
               THEN Err("getDocuments", tok, TRUE, 500, "GET_DOCUMENTS_ERROR", TRUE)
             ELSE Resp("getDocuments", tok, TRUE, 200, "", FALSE, applicationId, 0,
                       NoData, findByApplicationId(applicationId))
  /\ UNCHANGED <<db, ai>>

GetDocuments ==
  /\ UNCHANGED ext
  /\ \E tok \in Tokens :
       Authenticated(tok,
         LAMBDA userId : \E applicationId \in AppIds : getDocuments(tok, applicationId))

\* what downloadDocument, deleteDocument, extractTextFromDocument and
\* analyzeDocumentStructure do before they touch the document: the response
\* that ends the request early, or NoResp to go on
lookupDocument(op, tok, documentId, errorCode, needsFile) ==
  IF ~ValidUuid(documentId)
    THEN Err(op, tok, TRUE, 500, errorCode, TRUE)
  ELSE IF findDocumentById(documentId) = {}
    THEN Err(op, tok, TRUE, 404, "DOCUMENT_NOT_FOUND", FALSE)
  ELSE IF needsFile /\ documentId \notin files
    THEN Err(op, tok, TRUE, 404, "FILE_NOT_FOUND", FALSE)
  ELSE NoResp

\* DocumentController.downloadDocument
downloadDocument(tok, documentId) ==
  LET early == lookupDocument("downloadDocument", tok, documentId, "DOWNLOAD_ERROR", TRUE) IN
  /\ resp' = IF early # NoResp THEN early
             ELSE LET document == CHOOSE d \in findDocumentById(documentId) : TRUE
                  IN [Resp("downloadDocument", tok, TRUE, 200, "", FALSE,
                           document.application_id, documentId, document, {})
                      EXCEPT !.message = FALSE]
  /\ UNCHANGED <<db, ai>>

DownloadDocument ==
  /\ UNCHANGED ext
  /\ \E tok \in Tokens :
       Authenticated(tok,
         LAMBDA userId : \E documentId \in DocIds : downloadDocument(tok, documentId))

\* DocumentController.deleteDocument
deleteDocument(tok, documentId) ==
  LET early == lookupDocument("deleteDocument", tok, documentId, "DELETE_ERROR", FALSE) IN
  IF early # NoResp
    THEN /\ resp' = early
         /\ UNCHANGED <<db, ai>>
  ELSE LET document == CHOOSE d \in findDocumentById(documentId) : TRUE
       IN /\ files' = files \ {documentId}
          /\ documents' = documents \ {document}
          /\ resp' = Resp("deleteDocument", tok, TRUE, 200, "", FALSE,
                          document.application_id, documentId, NoData, {})
          /\ UNCHANGED <<users, applications, redis,
                         nextUserId, nextAppId, nextDocId, ai>>

DeleteDocument ==
  /\ UNCHANGED ext
  /\ \E tok \in Tokens :
       Authenticated(tok,
         LAMBDA userId : \E documentId \in DocIds : deleteDocument(tok, documentId))

\* ------------------------------------------------- document intelligence
\* the request is sent to the AI service (axios.post) and the handler waits
Pending(op, tok, document) ==
  [Resp(op, tok, TRUE, 0, "", FALSE, document.application_id, document.id, NoData, {})
   EXCEPT !.message = FALSE]
Forward(op, document) ==
  [op |-> op, doc |-> document.id, mime |-> document.mime_type, calls |-> 1]

\* DocumentController.extractTextFromDocument, up to the call of the AI service
extractTextFromDocument(tok, documentId) ==
  LET early == lookupDocument("extractTextFromDocument", tok, documentId, "EXTRACTION_ERROR", TRUE) IN
  IF early # NoResp
    THEN /\ resp' = early
         /\ UNCHANGED <<db, ai>>
  ELSE LET document == CHOOSE d \in findDocumentById(documentId) : TRUE IN
    IF document.mime_type \notin supportedTypes
      THEN /\ resp' = Err("extractTextFromDocument", tok, TRUE, 400, "UNSUPPORTED_FILE_TYPE", FALSE)
           /\ UNCHANGED <<db, ai>>
    ELSE /\ ai = NoAi
         /\ ai' = Forward("extractTextFromDocument", document)
         /\ resp' = Pending("extractTextFromDocument", tok, document)
         /\ UNCHANGED db

ExtractTextFromDocument ==
  /\ UNCHANGED ext
  /\ \E tok \in Tokens :
       Authenticated(tok,
         LAMBDA userId : \E documentId \in DocIds : extractTextFromDocument(tok, documentId))

\* DocumentController.analyzeDocumentStructure, up to the call of the AI service
analyzeDocumentStructure(tok, documentId) ==
  LET early == lookupDocument("analyzeDocumentStructure", tok, documentId, "ANALYSIS_ERROR", TRUE) IN
  IF early # NoResp
    THEN /\ resp' = early
         /\ UNCHANGED <<db, ai>>
  ELSE LET document == CHOOSE d \in findDocumentById(documentId) : TRUE IN
    /\ ai = NoAi
    /\ ai' = Forward("analyzeDocumentStructure", document)
    /\ resp' = Pending("analyzeDocumentStructure", tok, document)
    /\ UNCHANGED db

AnalyzeDocumentStructure ==
  /\ UNCHANGED ext
  /\ \E tok \in Tokens :
       Authenticated(tok,
         LAMBDA userId : \E documentId \in DocIds : analyzeDocumentStructure(tok, documentId))

\* how the awaited axios.post ends: a 2xx answer, a refused connection, the
\* timeout (30 s / 45 s) or any other failure
AiOutcomes == {"ok", "ECONNREFUSED", "ECONNABORTED"}

\* the catch (aiError) block of both handlers: the response, and what is
\* left waiting for the AI service
aiErrorCode(op) ==
  IF op = "extractTextFromDocument" THEN "AI_PROCESSING_ERROR" ELSE "AI_ANALYSIS_ERROR"
aiCatch_retry(r, code) ==
  IF r.calls < 2
    THEN [resp |-> [Err(r.op, NoToken, FALSE, 0, "", FALSE) EXCEPT !.message = FALSE],
          ai |-> [r EXCEPT !.calls = @ + 1]]
    ELSE [resp |-> Err(r.op, NoToken, FALSE, 500, "AI_PROCESSING_ERROR", TRUE), ai |-> NoAi]
aiCatch(r, code) ==
  [resp |-> IF code = "ECONNREFUSED"
              THEN Err(r.op, NoToken, FALSE, 503, "AI_SERVICE_UNAVAILABLE", TRUE)
              ELSE Err(r.op, NoToken, FALSE, 500, aiErrorCode(r.op), TRUE),
   ai |-> NoAi]

\* documentModel.updateAiAnalysis(documentId, aiAnalysis): class DocumentModel
\* defines no such method, so the call throws a TypeError (no error code)
updateAiAnalysisDefined == "updateAiAnalysis" \in DocumentModelMethods

\* the rest of both handlers, once the AI service has answered or failed
aiReturn(outcome) ==
  /\ ai # NoAi
  /\ IF outcome # "ok"
       THEN /\ resp' = aiCatch(ai, outcome).resp
            /\ ai' = aiCatch(ai, outcome).ai
            /\ UNCHANGED db
     ELSE IF ~updateAiAnalysisDefined
       THEN /\ resp' = aiCatch(ai, "TypeError").resp
            /\ ai' = aiCatch(ai, "TypeError").ai
            /\ UNCHANGED db
     ELSE /\ documents' = {IF d.id = ai.doc THEN [d EXCEPT !.ai_analysis = ai.op] ELSE d
                           : d \in documents}
          /\ resp' = Resp(ai.op, NoToken, FALSE, 200, "", FALSE, 0, ai.doc,
                          [documentId |-> ai.doc], {})
          /\ ai' = NoAi
          /\ UNCHANGED <<users, applications, files, redis,
                         nextUserId, nextAppId, nextDocId>>

AiReturn ==
  /\ UNCHANGED ext
  /\ \E outcome \in AiOutcomes : aiReturn(outcome)

\* ----------------------------------------------------------------- /health
health(dbHealth, redisHealth) ==
  /\ resp' = [Err("health", NoToken, TRUE, IF dbHealth /\ redisHealth THEN 200 ELSE 503,
                  "", FALSE) EXCEPT !.message = FALSE]
  /\ UNCHANGED <<db, ai>>

Health ==
  /\ UNCHANGED ext
  /\ \E dbHealth \in BOOLEAN, redisHealth \in BOOLEAN : health(dbHealth, redisHealth)

\* ------------------------------------- operations no route reaches
\* ApplicationModel.delete: refused by the documents' foreign key while a
\* document refers to the application
deleteApplication(id) ==
  IF ~ApplicationUnreferenced(id)
    THEN /\ resp' = Err("ApplicationModel.delete", NoToken, FALSE, 0, "FOREIGN_KEY_VIOLATION", FALSE)
         /\ UNCHANGED <<db, ai>>
  ELSE /\ applications' = {a \in applications : a.id # id}
       /\ resp' = Err("ApplicationModel.delete", NoToken, FALSE, 0, "", FALSE)
       /\ UNCHANGED <<users, documents, files, redis, nextUserId, nextAppId, nextDocId, ai>>

DeleteApplication ==
  /\ UNCHANGED ext
  /\ \E id \in AppIds : deleteApplication(id)

\* UserModel.delete: refused by the applications' foreign key
deleteUser(id) ==
  IF ~UserUnreferenced(id)
    THEN /\ resp' = Err("UserModel.delete", NoToken, FALSE, 0, "FOREIGN_KEY_VIOLATION", FALSE)
         /\ UNCHANGED <<db, ai>>
  ELSE /\ users' = {u \in users : u.id # id}
       /\ resp' = Err("UserModel.delete", NoToken, FALSE, 0, "", FALSE)
       /\ UNCHANGED <<applications, documents, files, redis, nextUserId, nextAppId, nextDocId, ai>>

DeleteUser ==
  /\ UNCHANGED ext
  /\ \E id \in UserIds : deleteUser(id)

\* ------------------------------------------------------------------ system
Next ==
  \/ Register
  \/ RefreshToken
  \/ CreateApplication
  \/ GetUserApplications
  \/ GetApplicationById
  \/ UpdateApplicationStatus
  \/ UploadDocument
  \/ OnDrop
  \/ GetDocuments
  \/ DownloadDocument
  \/ DeleteDocument
  \/ ExtractTextFromDocument
  \/ AnalyzeDocumentStructure
  \/ AiReturn
  \/ Health
  \/ DeleteApplication
  \/ DeleteUser

Spec == Init /\ [][Next]_vars

\* ------------------------------------------- the application form
\* A numeric input is <<>> while blank and <<n>> once a number is typed.
\* Of each step's fields the model keeps those named here.
steps == <<"personalInfo", "propertyDetails", "loanInfo", "financialInfo", "review">>

\* the values a user can leave in the fields of a step
StepValues(step) ==
  CASE step = 0 -> [firstName : {"", "J", "John"},
                    employmentStatus : {"", "full-time", "unemployed"},
                    employerName : {"", "Acme"}]
    [] step = 1 -> [purchasePrice : {<<>>, <<99999>>, <<100000>>},
                    purpose : {"", "investment"}]
    [] step = 2 -> [loanAmount : {<<>>, <<49999>>, <<50000>>},
                    termYears : {<<>>, <<30>>, <<31>>}]
    [] step = 3 -> [monthlyIncome : {<<>>, <<2499>>, <<2500>>}]
    [] OTHER -> {Unset}

\* Yup: number().min(lo).max(hi).required()
requiredNumber(v, lo, hi) == v # <<>> /\ v[1] >= lo /\ v[1] <= hi

\* validationSchema of the step
validationSchema(step, values) ==
  CASE step = 0 -> /\ Len(values.firstName) >= 2
                   /\ values.employmentStatus # ""
                   /\ values.employmentStatus = "full-time" => values.employerName # ""
    [] step = 1 -> /\ requiredNumber(values.purchasePrice, 100000, 10000000)
                   /\ values.purpose # ""
    [] step = 2 -> /\ requiredNumber(values.loanAmount, 50000, 5000000)
                   /\ requiredNumber(values.termYears, 1, 30)
    [] step = 3 -> requiredNumber(values.monthlyIncome, 2500, 400000)
    [] OTHER -> TRUE

\* what onSubmit hands to onDataChange: the values, numbers converted
stepData(step, values) ==
  CASE step = 1 -> [values EXCEPT !.purchasePrice = values.purchasePrice[1]]
    [] step = 2 -> [loanAmount |-> values.loanAmount[1], termYears |-> values.termYears[1]]
    [] step = 3 -> [monthlyIncome |-> values.monthlyIncome[1]]
    [] OTHER -> values

\* initialValues of the step's form, from formData
initialValues(step, formData) ==
  IF step = 4 THEN Unset
  ELSE LET saved == formData[steps[step + 1]] IN
    CASE step = 0 -> IF saved = Unset
                       THEN [firstName |-> "", employmentStatus |-> "", employerName |-> ""]
                       ELSE saved
      [] step = 1 -> IF saved = Unset
                       THEN [purchasePrice |-> <<>>, purpose |-> ""]
                       ELSE [saved EXCEPT !.purchasePrice = <<saved.purchasePrice>>]
      [] step = 2 -> IF saved = Unset
                       THEN [loanAmount |-> <<>>, termYears |-> <<>>]
                       ELSE [loanAmount |-> <<saved.loanAmount>>, termYears |-> <<saved.termYears>>]
      [] step = 3 -> IF saved = Unset
                       THEN [monthlyIncome |-> <<>>]
                       ELSE [monthlyIncome |-> <<saved.monthlyIncome>>]

\* ApplicationPage is rendered
MountApplicationPage ==
  /\ ~form.mounted
  /\ form' = [NoForm EXCEPT !.mounted = TRUE,
                            !.values = initialValues(0, NoForm.applicationData)]
  /\ UNCHANGED <<db, ai, resp, now, localStorage, chat, extract, reg>>

\* formik.handleChange: the user edits the fields of the step shown
HandleChange ==
  /\ form.mounted
  /\ form.activeStep < 4
  /\ \E values \in StepValues(form.activeStep) : form' = [form EXCEPT !.values = values]
  /\ UNCHANGED <<db, ai, resp, now, localStorage, chat, extract, reg>>

\* the step's onSubmit: onDataChange (handleDataChange) and onNext (handleNext)
onSubmit_noDataChange(f) ==
  [f EXCEPT !.activeStep = f.activeStep + 1,
            !.values = initialValues(f.activeStep + 1, f.applicationData),
            !.errors = FALSE]
onSubmit(f) ==
  LET merged == [f.applicationData EXCEPT
                   ![steps[f.activeStep + 1]] = stepData(f.activeStep, f.values)]
  IN [f EXCEPT !.applicationData = merged,
               !.activeStep = f.activeStep + 1,
               !.values = initialValues(f.activeStep + 1, merged),
               !.errors = FALSE]

\* the Next button (type="submit"): formik.handleSubmit validates and calls
\* onSubmit only for values without errors
handleSubmit ==
  /\ form.mounted
  /\ form.activeStep < 4
  /\ form' = IF validationSchema(form.activeStep, form.values)
               THEN onSubmit(form)
               ELSE [form EXCEPT !.errors = TRUE]
  /\ UNCHANGED <<db, ai, resp, now, localStorage, chat, extract, reg>>

\* the Back button: handleBack
handleBack ==
  /\ form.mounted
  /\ form.activeStep > 0
  /\ form' = [form EXCEPT !.activeStep = form.activeStep - 1,
                          !.values = initialValues(form.activeStep - 1, form.applicationData),
                          !.errors = FALSE]
  /\ UNCHANGED <<db, ai, resp, now, localStorage, chat, extract, reg>>

FormNext ==
  \/ MountApplicationPage
  \/ HandleChange
  \/ handleSubmit
  \/ handleBack

FormSpec == Init /\ [][FormNext]_vars

\* ------------------------------- the frontend's text extraction
\* handleExtractText: apiService.extractTextFromDocument posts through the
\* axios instance; the backend's handler runs up to its call of the AI service
\* ApiService.extractTextFromDocument: POST /api/documents/extract-text/:id
\* through the axios instance, as every method of ApiService does
ApiService_extractTextFromDocument(tok, documentId) ==
  Authenticated(tok, LAMBDA userId : extractTextFromDocument(tok, documentId))

handleExtractText(tok, documentId) ==
  /\ extract.state # "waiting"
  /\ ApiService_extractTextFromDocument(tok, documentId)
  /\ extract' = IF resp'.status = 0
                  THEN [NoExtract EXCEPT !.state = "waiting", !.doc = documentId]
                  ELSE [NoExtract EXCEPT !.state = "delivered", !.doc = documentId,
                                         !.answered = TRUE, !.status = resp'.status]
  /\ UNCHANGED <<now, localStorage, form, chat, reg>>

HandleExtractText ==
  \E tok \in Tokens \ {NoToken, ForgedToken}, documentId \in DocIds :
    handleExtractText(tok, documentId)

\* a second passes while the backend waits for the AI service; past the
\* instance's timeout axios rejects the frontend's request (the catch of
\* handleExtractText shows the error)
Wait ==
  /\ ai # NoAi
  /\ extract.state \in {"waiting", "timeout"}
  /\ extract.elapsed < AiTimeout
  /\ extract' = [extract EXCEPT
                   !.elapsed = @ + 1,
                   !.state = IF @ = "waiting" /\ extract.elapsed + 1 > FrontendTimeout
                               THEN "timeout" ELSE @]
  /\ UNCHANGED <<db, ai, resp, now, localStorage, form, chat, reg>>

\* the AI service answers, or the backend's own timeout ends the call; the
\* backend's response reaches the frontend if it still waits
AiReturnTimed ==
  /\ extract.state \in {"waiting", "timeout"}
  /\ \E outcome \in AiOutcomes :
       /\ outcome = "ECONNABORTED" => extract.elapsed = AiTimeout
       /\ aiReturn(outcome)
       /\ extract' = [extract EXCEPT
                        !.answered = TRUE,
                        !.answeredAt = extract.elapsed,
                        !.outcome = outcome,
                        !.status = resp'.status,
                        !.state = IF @ = "waiting" THEN "delivered" ELSE @]
  /\ UNCHANGED <<now, localStorage, form, chat, reg>>

ExtractNext ==
  \/ UploadDocument
  \/ HandleExtractText
  \/ Wait
  \/ AiReturnTimed

ExtractSpec == Init /\ [][ExtractNext]_vars

\* ------------------------------------------------------------ the chat
Greeting == [role |-> "assistant", content |-> "Hello! I'm Chloe"]
\* the messages a user types ("": nothing but blanks)
InputMessages == {"", "What documents do I need?", "And how long does that take?"}

\* AIChat is rendered
MountAIChat ==
  /\ ~chat.mounted
  /\ chat' = [NoChat EXCEPT !.mounted = TRUE, !.messages = <<Greeting>>]
  /\ UNCHANGED <<db, ai, resp, now, localStorage, form, extract, reg>>

\* ApiService.chatWithAI: the body of POST /api/ai/chat
chatWithAI(message, applicationId) == [message |-> message, applicationId |-> applicationId]

\* ChatbotService.generateResponse: the messages sent to the LLM
generateResponse(userMessage, applicationId) ==
  <<[role |-> "system", content |-> <<"systemPrompt", applicationId>>],
    [role |-> "user", content |-> userMessage]>>

\* POST /api/ai/chat up to the call of the LLM; apiKey: whether
\* OPENROUTER_API_KEY is set
chatRoute(tok, body, apiKey) ==
  Authenticated(tok,
    LAMBDA userId :
      /\ resp' = IF body.message = ""
                   THEN Err("chat", tok, TRUE, 400, "MISSING_MESSAGE", FALSE)
                 ELSE IF ~apiKey
                   THEN Err("chat", tok, TRUE, 500, "CHAT_ERROR", TRUE)
                 ELSE [Err("chat", tok, TRUE, 0, "", FALSE) EXCEPT !.message = FALSE]
      /\ UNCHANGED <<db, ai>>)

\* AIChat.handleSendMessage, up to the backend's call of the LLM
handleSendMessage(tok, inputMessage, applicationId, apiKey) ==
  /\ chat.mounted
  /\ inputMessage # ""
  /\ ~chat.isLoading
  /\ Len(chat.messages) < MaxMessages
  /\ LET body == chatWithAI(inputMessage, applicationId) IN
     /\ chatRoute(tok, body, apiKey)
     /\ chat' = [chat EXCEPT
                   !.messages = Append(@, [role |-> "user", content |-> inputMessage]),
                   !.history = chat.messages,
                   !.isLoading = resp'.status = 0,
                   !.error = resp'.status # 0,
                   !.llm = IF resp'.status = 0
                             THEN generateResponse(body.message, body.applicationId)
                             ELSE <<>>]
  /\ UNCHANGED <<now, localStorage, form, extract, reg>>

HandleSendMessage ==
  \E tok \in Tokens, inputMessage \in InputMessages, apiKey \in BOOLEAN :
    handleSendMessage(tok, inputMessage, 1, apiKey)

\* the LLM answers or the call fails; the route responds and AIChat shows
\* the reply or the error
llmReturn(ok) ==
  /\ chat.isLoading
  /\ resp' = IF ok
               THEN Resp("chat", resp.token, FALSE, 200, "", FALSE, 0, 0,
                         [response |-> "reply"], {})
               ELSE Err("chat", resp.token, FALSE, 500, "CHAT_ERROR", TRUE)
  /\ chat' = [chat EXCEPT
                !.messages = IF ok THEN Append(@, [role |-> "assistant", content |-> "reply"])
                                   ELSE @,
                !.isLoading = FALSE,
                !.error = ~ok]
  /\ UNCHANGED <<db, ai, now, localStorage, form, extract, reg>>

LlmReturn == \E ok \in BOOLEAN : llmReturn(ok)

ChatNext ==
  \/ MountAIChat
  \/ HandleSendMessage
  \/ LlmReturn

ChatSpec == Init /\ [][ChatNext]_vars

\* ------------------------------------------ register, request by request
\* users.email is UNIQUE: the INSERT is accepted only for a new email
EmailUnique(email) == findByEmail(email) = {}

InFlight(q) == reg[q].pc \in {"checked", "created"}

\* AuthController.register up to its first await of the database: the
\* validation, then userModel.findByEmail and the 409
registerCheck(p, body) ==
  /\ reg[p].pc \in {"idle", "done"}
  /\ LET others == {q \in Procs \ {p} : InFlight(q)}
         started == [q \in Procs |->
                       IF q \in others THEN [reg[q] EXCEPT !.overlap = @ \cup {p}]
                       ELSE reg[q]]
         request == [NoRequest EXCEPT !.body = body, !.overlap = others,
                                      !.fresh = findByEmail(body.email) = {}]
     IN IF body.email = Missing \/ body.password = Missing
           \/ body.firstName = Missing \/ body.lastName = Missing
          THEN /\ reg' = [started EXCEPT ![p] = [request EXCEPT !.pc = "done", !.status = 400,
                                                               !.code = "VALIDATION_ERROR"]]
               /\ resp' = [Err("register", NoToken, TRUE, 400, "VALIDATION_ERROR", FALSE)
                           EXCEPT !.body = body]
        ELSE IF findByEmail(body.email) # {}
          THEN /\ reg' = [started EXCEPT ![p] = [request EXCEPT !.pc = "done", !.status = 409,
                                                               !.code = "USER_EXISTS"]]
               /\ resp' = [Err("register", NoToken, TRUE, 409, "USER_EXISTS", FALSE)
                           EXCEPT !.body = body]
        ELSE /\ reg' = [started EXCEPT ![p] = [request EXCEPT !.pc = "checked"]]
             /\ UNCHANGED resp
  /\ UNCHANGED <<db, ai, now, localStorage, form, chat, extract>>

RegisterCheck ==
  \E p \in Procs, email \in Emails \cup {Missing}, name \in {Missing, "John"} :
    registerCheck(p, [email |-> email, password |-> "password123", firstName |-> name,
                      lastName |-> "Doe", role |-> Missing])

\* userModel.create: the INSERT; a violation of users_email_key is thrown and
\* the catch block of register answers it
registerCreate(p) ==
  /\ reg[p].pc = "checked"
  /\ LET body == reg[p].body IN
     IF ~EmailUnique(body.email)
       THEN /\ reg' = [reg EXCEPT ![p].pc = "done", ![p].status = 500,
                                  ![p].code = "INTERNAL_ERROR"]
            /\ resp' = [Err("register", NoToken, TRUE, 500, "INTERNAL_ERROR", TRUE)
                        EXCEPT !.body = body]
            /\ UNCHANGED <<db, ai>>
     ELSE /\ nextUserId <= MaxUsers
          /\ users' = users \cup {[id |-> nextUserId, email |-> body.email,
                                   password_hash |-> Hash(body.password),
                                   role |-> IF body.role = Missing THEN "customer"
                                            ELSE body.role]}
          /\ nextUserId' = nextUserId + 1
          /\ reg' = [reg EXCEPT ![p].pc = "created", ![p].userId = nextUserId]
          /\ UNCHANGED <<applications, documents, files, redis, nextAppId, nextDocId,
                         ai, resp>>
  /\ UNCHANGED <<now, localStorage, form, chat, extract>>

RegisterCreate == \E p \in Procs : registerCreate(p)

\* generateTokens, redis.set and the 201
registerRespond(p) ==
  /\ reg[p].pc = "created"
  /\ LET user == CHOOSE u \in users : u.id = reg[p].userId
         t == generateTokens(user.id)
     IN /\ redis' = [redis EXCEPT ![user.id] = t.refreshToken]
        /\ resp' = [Resp("register", NoToken, TRUE, 201, "", FALSE, 0, 0,
                         registerResponseData(user, t), {})
                    EXCEPT !.body = reg[p].body]
  /\ reg' = [reg EXCEPT ![p].pc = "done", ![p].status = 201]
  /\ UNCHANGED <<users, applications, documents, files, nextUserId, nextAppId, nextDocId,
                 ai, now, localStorage, form, chat, extract>>

RegisterRespond == \E p \in Procs : registerRespond(p)

RaceNext ==
  \/ RegisterCheck
  \/ RegisterCreate
  \/ RegisterRespond

RaceSpec == Init /\ [][RaceNext]_vars

\* authentication alone, with the clock and the browser
AuthNext ==
  \/ Register
  \/ Login
  \/ RefreshTokenAt
  \/ Logout
  \/ Tick
  \/ AuthContextLogin
  \/ AuthContextLogout
  \/ DeleteUser

AuthSpec == Init /\ [][AuthNext]_vars

\* ================================================================ claims
DocumentOps ==
  {"uploadDocument", "getDocuments", "downloadDocument", "deleteDocument",
   "extractTextFromDocument", "analyzeDocumentStructure"}
ApplicationOps ==
  {"createApplication", "getUserApplications", "getApplicationById", "updateApplicationStatus"}
Owns(userId, applicationId) ==
  \E a \in applications : a.id = applicationId /\ a.user_id = userId

\* C1: a document operation on an existing application's documents succeeds
\* only if the authenticated user owns that application.
C1_DocumentAccessControl ==
  (resp.op \in DocumentOps /\ resp.status = 200 /\ findApplicationById(resp.app) # {})
    => Owns(resp.token.userId, resp.app)

\* C2: the controller of an application or document endpoint is entered only
\* for a request whose token is present, validly signed and names a user that
\* exists; a request without a token, or whose signed token names a user that
\* no longer exists, is answered 401 by the middleware, the controller not
\* entered.
C2_AuthenticationRequired ==
  /\ (resp.entered /\ resp.op \in ApplicationOps \cup DocumentOps)
       => /\ resp.token.present
          /\ resp.token.signed
          /\ findUserById(resp.token.userId) # {}
  /\ (/\ resp.op = "authenticateToken"
      /\ \/ ~resp.token.present
         \/ resp.token.signed /\ findUserById(resp.token.userId) = {})
       => resp.status = 401 /\ ~resp.entered
\* a signed token of a deleted user was refused with 401
C2_Witness ==
  /\ resp.op = "authenticateToken"
  /\ resp.status = 401
  /\ resp.token.signed
  /\ findUserById(resp.token.userId) = {}

SameApplication(x, y) ==
  x.id = y.id /\ x.user_id = y.user_id /\ x.application_number = y.application_number
\* C3: the application a 201 response of createApplication returns is a row
\* of its caller, and every application, for as long as its row exists, is
\* returned with status 200 to a getApplicationById request of its user (the
\* same id, user and application number); a document uploadDocument has
\* created is what findById returns for its id.
C3_CreatedRetrievable ==
  /\ (resp.op = "createApplication" /\ resp.status = 201)
       => resp.data \in applications /\ resp.data.user_id = resp.token.userId
  /\ \A a \in applications :
       /\ authenticateToken(SignedToken(a.user_id)).ok
       /\ LET r == getApplicationByIdResponse(SignedToken(a.user_id), a.user_id, a.id)
          IN r.status = 200 /\ SameApplication(r.data, a)
  /\ (resp.op = "getApplicationById" /\ Owns(resp.token.userId, resp.app))
       => resp.status = 200 /\ resp.data \in applications
  /\ (resp.op = "uploadDocument" /\ resp.status = 200)
       => findDocumentById(resp.data.id) = {resp.data}
\* a created (not seeded) application was fetched by id, after its status changed
C3_Witness ==
  /\ resp.op = "getApplicationById"
  /\ resp.status = 200
  /\ resp.data \notin SeedApplications
  /\ resp.data.id \notin {a.id : a \in SeedApplications}
  /\ resp.data.status = "approved"

\* C4: when the AI service answers an extract-text request for a document
\* that exists successfully, the result is stored in the document's
\* ai_analysis and the response is 200.
C4_ExtractPersists ==
  [][(/\ ai.op = "extractTextFromDocument"
      /\ findDocumentById(ai.doc) # {}
      /\ aiReturn("ok"))
       => /\ resp'.status = 200
          /\ \A d \in documents' : d.id = ai.doc => d.ai_analysis # "null"]_vars

AiErrorCodes == {"AI_SERVICE_UNAVAILABLE", "AI_PROCESSING_ERROR", "AI_ANALYSIS_ERROR"}
\* C5: a document-intelligence request calls the AI service at most once, and
\* a failed call ends the request with an error response, nothing left
\* waiting.
C5_NoRetry ==
  /\ ai.calls <= 1
  /\ resp.code \in AiErrorCodes => resp.status \in {500, 503} /\ ai = NoAi
  /\ (resp.op \in {"extractTextFromDocument", "analyzeDocumentStructure"} /\ resp.status = 0)
       => ai.calls = 1 /\ ai.doc = resp.doc
\* a refused connection ended an extract-text request
C5_Witness ==
  /\ resp.op = "extractTextFromDocument"
  /\ resp.code = "AI_SERVICE_UNAVAILABLE"
  /\ ai = NoAi

C7_ReferentialIntegrity ==
  /\ \A d \in documents : \E a \in applications : a.id = d.application_id
  /\ \A a \in applications : \E u \in users : u.id = a.user_id
\* the delete of an application that has a document was refused
C7_Witness ==
  /\ resp.op = "ApplicationModel.delete"
  /\ resp.code = "FOREIGN_KEY_VIOLATION"
  /\ documents # {}

\* C8: only a document of a supported type is forwarded to the AI service.
C8_UnsupportedNeverForwarded ==
  ai.op # "none" => ai.mime \in supportedTypes

DataEmail(data) == IF "email" \in DOMAIN data THEN data.email ELSE "undefined"
\* C10: a 201 response of register has data.email equal to the
\* submitted email.
C10_RegisterDataEmail ==
  (resp.op = "register" /\ resp.status = 201) => DataEmail(resp.data) = resp.body.email

\* C11: a login request with the email and password of a registered user is
\* answered 200 with a token in data.
C11_LoginAfterRegister ==
  (/\ resp.op = "login"
   /\ \E u \in users : /\ u \notin SeedUsers
                       /\ u.email = resp.body.email
                       /\ u.password_hash = Hash(resp.body.password))
    => /\ resp.status = 200
       /\ "token" \in DOMAIN resp.data
       /\ resp.data.token.present /\ resp.data.token.signed
       /\ resp.data.token.userId \in {u.id : u \in findByEmail(resp.body.email)}
\* the user the guide's test registers has logged in
C11_Witness ==
  /\ resp.op = "login"
  /\ resp.status = 200
  /\ resp.body.email = "test@example.com"
  /\ resp.data.user.id \notin {u.id : u \in SeedUsers}

\* C15: a refresh request is answered with new tokens only if its token
\* verifies and is the one stored for its user; a token that verifies while
\* none or another one is stored is answered 401 INVALID_REFRESH_TOKEN, and
\* a request that is refused stores nothing.
C15_RefreshRequiresStoredToken ==
  [][resp'.op = "refreshToken" =>
       LET rt == resp'.token IN
       /\ resp'.status = 200 =>
            /\ rt.present /\ rt.signed
            /\ redis[rt.userId] = rt
            /\ redis'[rt.userId] = resp'.data.refreshToken
       /\ (rt.present /\ rt.signed /\ redis[rt.userId] # rt) =>
            /\ resp'.status = 401
            /\ resp'.code = "INVALID_REFRESH_TOKEN"
       /\ (rt.present /\ ~rt.signed) => resp'.status = 401
       /\ resp'.status # 200 => redis' = redis]_vars
\* a token that verifies was refused because another one is stored
C15_Witness ==
  /\ resp.op = "refreshToken"
  /\ resp.status = 401
  /\ resp.code = "INVALID_REFRESH_TOKEN"
  /\ resp.token.signed
  /\ redis[resp.token.userId] # NoToken
  /\ redis[resp.token.userId] # resp.token

\* C16: once a refresh or a login has issued a new refresh token to a user,
\* the refresh token stored for the user before is no longer the accepted one.
C16_PreviousTokenRejected ==
  [][\A u \in UserIds :
       (/\ resp'.op \in {"refreshToken", "login"}
        /\ resp'.status = 200
        /\ resp'.data.refreshToken.userId = u
        /\ redis[u] # NoToken)
         => ~(redis'[u] = redis[u])]_vars

\* C17: the frontend's logout of a logged-in user removes the refresh token
\* stored for that user.
C17_FrontendLogoutRemovesToken ==
  [][(/\ localStorage.authToken.signed
      /\ findUserById(localStorage.authToken.userId) # {}
      /\ AuthContextLogout)
       => redis'[localStorage.authToken.userId] = NoToken]_vars

C13_ExtractionDelivered ==
  (/\ extract.answered
   /\ extract.outcome = "ok"
   /\ extract.answeredAt <= ProcessingTimeMax)
    => extract.state = "delivered"

\* C14: the messages sent to the LLM for a chat message include the earlier
\* messages of the session (the canned greeting aside).
C14_ChatContext ==
  chat.llm # <<>> =>
    \A i \in 2..Len(chat.history) :
      \E j \in DOMAIN chat.llm :
        /\ chat.llm[j].role = chat.history[i].role
        /\ chat.llm[j].content = chat.history[i].content

\* C18: no user reads or modifies another user's application:
\* getUserApplications returns only the caller's applications,
\* getApplicationById answers 403 FORBIDDEN for an existing application of
\* someone else and 404 for a missing one, and updateApplicationStatus on an
\* application the caller does not own answers 404 and changes nothing.
C18_ApplicationIsolation ==
  [][/\ (resp'.op = "getUserApplications" /\ resp'.status = 200)
          => /\ \A a \in resp'.rows : a.user_id = resp'.token.userId
             /\ resp'.rows = {a \in applications : a.user_id = resp'.token.userId}
     /\ (resp'.op = "getApplicationById" /\ resp'.entered /\ resp'.app # 0)
          => /\ applications' = applications
             /\ IF findApplicationById(resp'.app) = {}
                  THEN resp'.status = 404 /\ resp'.code = "NOT_FOUND"
                ELSE IF ~Owns(resp'.token.userId, resp'.app)
                  THEN /\ resp'.status = 403
                       /\ resp'.code = "FORBIDDEN"
                       /\ resp'.data = NoData
                ELSE resp'.status = 200
     /\ (/\ resp'.op = "updateApplicationStatus"
         /\ resp'.entered
         /\ resp'.app # 0
         /\ ~Owns(resp'.token.userId, resp'.app))
          => /\ resp'.status = 404
             /\ resp'.code = "NOT_FOUND"
             /\ applications' = applications]_vars
\* updateApplicationStatus has answered 404 for an existing application of
\* another user
C18_Witness ==
  /\ resp.op = "updateApplicationStatus"
  /\ resp.status = 404
  /\ findApplicationById(resp.app) # {}
  /\ ~Owns(resp.token.userId, resp.app)
  /\ findUserById(resp.token.userId) # {}

\* C19: only a user of role staff or admin sets an application's status to
\* approved, rejected, declined or funded; a customer does not approve his own
\* application through the status endpoint.
C19_StaffOnlyDecision ==
  (/\ resp.op = "updateApplicationStatus"
   /\ resp.status = 200
   /\ resp.data.status \in {"approved", "rejected", "declined", "funded"})
    => \E u \in users : u.id = resp.token.userId /\ u.role \in {"staff", "admin"}

\* C20: of two register requests for the same unregistered email that run
\* concurrently, one creates the user and answers 201 and the other answers
\* 409 USER_EXISTS; there are never two users of that email, nor a 500.
C20_ConcurrentRegister ==
  /\ \A u, v \in users : u.email = v.email => u = v
  /\ \A p, q \in Procs :
       (/\ p # q
        /\ reg[p].pc = "done" /\ reg[q].pc = "done"
        /\ q \in reg[p].overlap /\ p \in reg[q].overlap
        /\ reg[p].body.email = reg[q].body.email
        /\ reg[p].body.email # Missing
        /\ reg[p].status # 400 /\ reg[q].status # 400
        /\ reg[p].fresh \/ reg[q].fresh)
         => /\ {reg[p].status, reg[q].status} = {201, 409}
            /\ \A r \in {p, q} : reg[r].status = 409 => reg[r].code = "USER_EXISTS"

====
